---- MODULE Spec2Model ----
(***************************************************************************)
(* Model of builder-reimage.py: the MAAS reimage automation script.        *)
(*                                                                         *)
(* One process (asyncio runs main() as a single task).  Every await on the *)
(* provisioning API is a step of its own.  The remote machines change      *)
(* status on their own; a change shows only in what a later fetch returns, *)
(* so the model lets a machine take its new status at the steps where the  *)
(* tool can next see it: a listing (every machine), a single fetch (that   *)
(* machine), the start of a status wait and each of its sleeps (the        *)
(* machine waited for).  Time is counted in seconds and only the sleeps    *)
(* take time.  connect_maas, wait_for_status and                           *)
(* find_last_deployed_machine are also run on their own, over their        *)
(* inputs.                                                                 *)
(***************************************************************************)
EXTENDS Integers, Sequences, FiniteSets, TLC

\* ------------------------------------------------------------------ bounds
NumMachines == 2      \* machines registered with the provisioning service
MaxRetries == 4       \* largest max_attempts tried for connect_maas alone
MaxTimeout == 25      \* largest timeout tried for wait_for_status alone
MaxLen == 3           \* longest listing handed to find_last_deployed_machine
MaxTs == 2            \* distinct instants the timestamps denote

\* ------------------------------------------------------- program constants
DefaultRetries == 3   \* connect_maas(..., retries=3)
BackoffSeconds == 2   \* await asyncio.sleep(2)
DefaultTimeout == 900 \* wait_for_status(..., timeout=900)
PollInterval == 10    \* await asyncio.sleep(10)

\* ----------------------------------------------------------------- values
Machines == 1..NumMachines

\* status_name labels the service reports
Statuses == {"Deployed", "Ready", "Failed"}

\* str.lower() on the labels that occur
Lower(s) ==
  CASE s = "Deployed" -> "deployed"
    [] s = "Ready" -> "ready"
    [] s = "Failed" -> "failed"
    [] s = "Broken" -> "broken"
    [] s = "Error" -> "error"
    [] s = "Unknown" -> "unknown"
    [] OTHER -> s

\* Python values that meet in comparisons: None, a str, a Machine object
None == [kind |-> "None"]
Str(h) == [kind |-> "str", val |-> h]
Bool(b) == [kind |-> "bool", val |-> b]
Session == [kind |-> "Session"]

\* machine i is registered under hostname i; hostname 0 belongs to no machine
Machine(i, s) ==
  [kind |-> "Machine", system_id |-> i, hostname |-> Str(i), status_name |-> s]

\* a == b in Python: values of different types are never equal
PyEq(a, b) == a.kind = b.kind /\ a = b

\* truthiness of a value used as a condition (if m / if not machine /
\* if not val): None and the empty string are false
Truthy(v) == v.kind \notin {"None", "empty"}

\* the exceptions connect_maas handles, had it handled every exception
TransientAndOther ==
  {"ClientConnectorError", "ClientOSError", "ClientResponseError",
   "TimeoutError", "ServerDisconnectedError", "OtherError"}

\* the exceptions connect_maas handles (lines 50-57)
Transient ==
  {"ClientConnectorError", "ClientOSError", "ClientResponseError",
   "TimeoutError", "ServerDisconnectedError"}

\* what one connect() call can do: succeed, fail transiently, raise otherwise
ConnectOutcomes == {"ok", "OtherError"} \cup Transient

\* what an API call can do: return, or raise
ApiOutcomes == {"ok", "raise"}

Actions ==
  {"list", "list-distros", "query", "status", "deploy", "redeploy",
   "redeploy-all", "last-deployed"}

\* a command line whose --action is missing or is none of the choices
BadAction == "no-such-action"

VARIABLES
  pc,           \* position of the process
  stack,        \* return positions of the calls in progress
  ret,          \* value returned by the call that ended last
  outcome,      \* "running", "completed", "error_reported", "exit1", "exit2",
                \* "traceback"
  action,       \* --action
  machineArg,   \* --machine (None when absent)
  retries,      \* connect_maas: retries
  attempt,      \* connect_maas: loop variable
  lastErr,      \* connect_maas: exception handled in this iteration
  outcomes,     \* history: what each connect() call did, in order
  sleeps,       \* history: number of asyncio.sleep(2) calls
  slept,        \* history: seconds connect_maas has slept
  remote,       \* the service's current status of each machine
  lastFetched,  \* history: status of each machine as last fetched by the tool
  q_hostname,   \* query_machine: hostname
  q_sid,        \* query_machine: system_id of the list entry that matched
  r_hostname,   \* redeploy_machine: hostname
  r_machine,    \* redeploy_machine: machine
  d_name,       \* deploy_machine: machine_name
  d_machine,    \* deploy_machine: machine
  w_id,         \* wait_for_status: system_id
  w_expected,   \* wait_for_status: expected_status
  w_timeout,    \* wait_for_status: timeout
  elapsed,      \* wait_for_status: time.time() - start
  polls,        \* history: fetches issued by this wait
  wsleeps,      \* history: sleeps completed by this wait
  lastPollAt,   \* history: elapsed time at which the last fetch was issued
  appearedAt,   \* history: elapsed time since which the status has matched
  ra_idx,       \* redeploy_all: position in machines
  machines,     \* find_last_deployed_machine: machines, as listed
  candidates,   \* find_last_deployed_machine: candidates
  calls,        \* history: the machines released, deployed or polled, in order
  log           \* history: calls issued and messages reported, in order, by
                \* the redeploy sequence in progress (by the run, outside one)

connVars == <<retries, attempt, lastErr, outcomes, sleeps, slept>>
argVars == <<action, machineArg>>
envVars == <<remote, lastFetched>>
queryVars == <<q_hostname, q_sid>>
redeployVars == <<r_hostname, r_machine, ra_idx>>
deployVars == <<d_name, d_machine>>
findVars == <<machines, candidates>>
waitVars == <<w_id, w_expected, w_timeout, elapsed, polls, wsleeps, lastPollAt, appearedAt>>
ctlVars == <<pc, stack, ret, outcome>>

vars ==
  <<pc, stack, ret, outcome, action, machineArg, retries, attempt, lastErr,
    outcomes, sleeps, remote, lastFetched, q_hostname, q_sid, r_hostname,
    r_machine, d_name, d_machine, w_id, w_expected, w_timeout, elapsed, polls,
    wsleeps, lastPollAt, appearedAt, ra_idx, calls, log, slept, machines,
    candidates>>

\* ----------------------------------------------------------------- history
\* a message reported about machine (or hostname) m; 0 when about none
Ev(e, m) == [ev |-> e, m |-> m, seen |-> "-"]

\* a release or deploy call issued on machine m, with the status the tool
\* fetched for m most recently
Call(e, m) == [ev |-> e, m |-> m, seen |-> lastFetched[m]]

\* a release, deploy or poll of machine i enters calls once per run of
\* consecutive calls on i
Touch(c, i) == IF Len(c) > 0 /\ c[Len(c)] = i THEN c ELSE Append(c, i)

\* ------------------------------------------------------------ control flow
\* return v to the caller; a function run on its own ends at "returned"
Return(v) ==
  /\ ret' = v
  /\ IF stack = <<>>
       THEN pc' = "returned" /\ stack' = stack
       ELSE pc' = Head(stack) /\ stack' = Tail(stack)

\* an exception nothing catches reaches the handler at lines 360-361, which
\* prints it; the script then ends normally
RaiseWith(l) ==
  /\ pc' = "done"
  /\ stack' = <<>>
  /\ ret' = None
  /\ outcome' = "error_reported"
  /\ log' = Append(l, Ev("Error", 0))

Raise == RaiseWith(log)

\* --------------------------------------------------------------- connect_maas
\* for attempt in range(1, retries + 1): is there another iteration
HasNextAttemptOffByOne(a, r) == a < r + 1
HasNextAttempt(a, r) == a < r

\* if attempt < retries: sleep before the next attempt
AttemptsRemainAlways(a, r) == TRUE
AttemptsRemain(a, r) == a < r

ConnectLoop ==
  /\ pc = "connect_loop"
  /\ IF HasNextAttempt(attempt, retries)
       THEN attempt' = attempt + 1 /\ pc' = "connect_try"
       ELSE attempt' = attempt /\ pc' = "connect_fatal"
  /\ lastErr' = "none"
  /\ UNCHANGED <<stack, ret, outcome, retries, outcomes, sleeps, slept, log>>
  /\ UNCHANGED <<argVars, findVars, envVars, queryVars, redeployVars, deployVars, waitVars, calls>>

\* ConnectAttempt with a successful attempt that does not return
ConnectAttemptNoReturn ==
  /\ pc = "connect_try"
  /\ \E o \in ConnectOutcomes :
       /\ outcomes' = Append(outcomes, o)
       /\ IF o = "OtherError"
            THEN Raise /\ lastErr' = lastErr
            ELSE /\ lastErr' = o
                 /\ pc' = "connect_handled"
                 /\ UNCHANGED <<stack, ret, outcome, log>>
  /\ UNCHANGED <<retries, attempt, sleeps, slept>>
  /\ UNCHANGED <<argVars, findVars, envVars, queryVars, redeployVars, deployVars, waitVars, calls>>

ConnectAttempt ==
  /\ pc = "connect_try"
  /\ \E o \in ConnectOutcomes :
       /\ outcomes' = Append(outcomes, o)
       /\ CASE o = "ok" ->
                 /\ Return(Session)
                 /\ UNCHANGED <<outcome, lastErr, log>>
            [] o \in Transient ->
                 /\ lastErr' = o
                 /\ pc' = "connect_handled"
                 /\ UNCHANGED <<stack, ret, outcome, log>>
            [] OTHER ->
                 /\ Raise
                 /\ lastErr' = lastErr
  /\ UNCHANGED <<retries, attempt, sleeps, slept>>
  /\ UNCHANGED <<argVars, findVars, envVars, queryVars, redeployVars, deployVars, waitVars, calls>>

ConnectBackoff ==
  /\ pc = "connect_handled"
  /\ IF AttemptsRemain(attempt, retries)
       THEN sleeps' = sleeps + 1 /\ slept' = slept + BackoffSeconds
       ELSE sleeps' = sleeps /\ slept' = slept
  /\ pc' = "connect_loop"
  /\ UNCHANGED <<stack, ret, outcome, retries, attempt, lastErr, outcomes, log>>
  /\ UNCHANGED <<argVars, findVars, envVars, queryVars, redeployVars, deployVars, waitVars, calls>>

\* the end of connect_maas without sys.exit(1): it returns None
ConnectFatalNoExit ==
  /\ pc = "connect_fatal"
  /\ log' = Append(log, Ev("unable_to_connect", 0))
  /\ Return(None)
  /\ UNCHANGED <<outcome, retries, attempt, lastErr, outcomes, sleeps, slept>>
  /\ UNCHANGED <<argVars, findVars, envVars, queryVars, redeployVars, deployVars, waitVars, calls>>

\* sys.exit(1) raises SystemExit, which the handlers at 358-361 do not catch
ConnectFatal ==
  /\ pc = "connect_fatal"
  /\ pc' = "exited"
  /\ outcome' = "exit1"
  /\ stack' = <<>>
  /\ log' = Append(log, Ev("unable_to_connect", 0))
  /\ UNCHANGED <<ret, retries, attempt, lastErr, outcomes, sleeps, slept>>
  /\ UNCHANGED <<argVars, findVars, envVars, queryVars, redeployVars, deployVars, waitVars, calls>>

NextConnect == ConnectLoop \/ ConnectAttempt \/ ConnectBackoff \/ ConnectFatal

\* ------------------------------------------------------------- environment
\* the machine's status moves to s while the tool waits for w_expected:
\* the elapsed time since which the status has matched, -1 when it does not
Appeared(s, expected, prev, now) ==
  IF Lower(s) = Lower(expected) THEN (IF prev # -1 THEN prev ELSE now) ELSE -1

\* a status poll enters the history once per run of consecutive polls
LogPoll(l, i) ==
  IF Len(l) > 0 /\ l[Len(l)] = Ev("poll", i)
    THEN l
    ELSE Append(l, Ev("poll", i))

\* ------------------------------------------------------------ wait_for_status
\* while time.time() - start < timeout
WaitLoopCondInclusive(e, t) == e <= t
WaitLoopCond(e, t) == e < t

\* m.status_name.lower() == expected_status.lower()
StatusMatchesCaseSensitive(s, e) == s = e
StatusMatches(s, e) == Lower(s) = Lower(e)

\* the caller's step into wait_for_status: start = time.time()
CallWait(id, expected, timeout, back) ==
  /\ w_id' = id /\ w_expected' = expected /\ w_timeout' = timeout
  /\ elapsed' = 0 /\ polls' = 0 /\ wsleeps' = 0 /\ lastPollAt' = -1
  /\ \E s \in Statuses :
       /\ remote' = [remote EXCEPT ![id] = s]
       /\ appearedAt' = Appeared(s, expected, -1, 0)
  /\ pc' = "w_loop"
  /\ stack' = <<back>> \o stack

WaitPoll ==
  /\ pc = "w_loop"
  /\ WaitLoopCond(elapsed, w_timeout)
  /\ polls' = polls + 1
  /\ lastPollAt' = elapsed
  /\ calls' = Touch(calls, w_id)
  /\ \E o \in ApiOutcomes :
       IF o = "raise"
         THEN /\ RaiseWith(Append(LogPoll(log, w_id), Ev("raised", w_id)))
              /\ lastFetched' = lastFetched
         ELSE /\ lastFetched' = [lastFetched EXCEPT ![w_id] = remote[w_id]]
              /\ IF StatusMatches(remote[w_id], w_expected)
                   THEN /\ log' = Append(LogPoll(log, w_id), Ev("reached", w_id))
                        /\ Return(Bool(TRUE))
                   ELSE /\ log' = LogPoll(log, w_id)
                        /\ pc' = "w_sleep"
                        /\ UNCHANGED <<stack, ret>>
              /\ outcome' = outcome
  /\ UNCHANGED <<argVars, findVars, connVars, remote, queryVars, redeployVars, deployVars,
                 w_id, w_expected, w_timeout, elapsed, wsleeps, appearedAt>>

WaitSleep ==
  /\ pc = "w_sleep"
  /\ elapsed' = elapsed + PollInterval
  /\ wsleeps' = wsleeps + 1
  /\ \E s \in Statuses :
       /\ remote' = [remote EXCEPT ![w_id] = s]
       /\ appearedAt' = Appeared(s, w_expected, appearedAt, elapsed)
  /\ pc' = "w_loop"
  /\ UNCHANGED <<stack, ret, outcome, argVars, findVars, connVars, lastFetched, queryVars,
                 redeployVars, deployVars, w_id, w_expected, w_timeout, polls,
                 lastPollAt, calls, log>>

WaitTimeout ==
  /\ pc = "w_loop"
  /\ ~WaitLoopCond(elapsed, w_timeout)
  /\ log' = Append(log, Ev("timeout", w_id))
  /\ Return(Bool(FALSE))
  /\ UNCHANGED <<outcome, argVars, findVars, connVars, envVars, queryVars, redeployVars,
                 deployVars, waitVars, calls>>

NextWait == WaitPoll \/ WaitSleep \/ WaitTimeout

\* ------------------------------------------------------------ list_machines
\* client.machines.list(): every machine, each with the status it has now
Listings == [Machines -> Statuses]

ListMachines ==
  /\ pc = "list_machines"
  /\ \E o \in ApiOutcomes :
       IF o = "raise"
         THEN Raise /\ UNCHANGED envVars
         ELSE /\ remote' \in Listings
              /\ lastFetched' = remote'
              /\ log' = Append(log, Ev("listed", 0))
              /\ Return(None)
              /\ outcome' = outcome
  /\ UNCHANGED <<argVars, findVars, connVars, queryVars, redeployVars, deployVars, waitVars, calls>>

\* list_distros reads the boot-resource catalog only
ListDistros ==
  /\ pc = "list_distros"
  /\ \E o \in ApiOutcomes :
       IF o = "raise"
         THEN Raise
         ELSE /\ log' = Append(log, Ev("distros", 0))
              /\ Return(None)
              /\ outcome' = outcome
  /\ UNCHANGED <<argVars, findVars, connVars, envVars, queryVars, redeployVars, deployVars, waitVars, calls>>

\* ------------------------------------------------------------ query_machine
\* if m.hostname == hostname
HostnameMatchesAny(m, hostname) == TRUE
HostnameMatches(m, hostname) == PyEq(m.hostname, hostname)

\* the entries of listing f that satisfy the test, by system_id (listing order)
Matching(f, name) == {i \in Machines : HostnameMatches(Machine(i, f[i]), name)}

\* the first entry of the listing that satisfies the test
FirstOf(S) == CHOOSE i \in S : \A j \in S : i <= j

QueryList ==
  /\ pc = "q_list"
  /\ \E o \in ApiOutcomes :
       IF o = "raise"
         THEN Raise /\ UNCHANGED <<envVars, q_sid>>
         ELSE /\ remote' \in Listings
              /\ lastFetched' = remote'
              /\ outcome' = outcome
              /\ IF Matching(remote', q_hostname) # {}
                   THEN /\ q_sid' = FirstOf(Matching(remote', q_hostname))
                        /\ pc' = "q_get"
                        /\ UNCHANGED <<stack, ret, log>>
                   ELSE /\ log' = Append(log, Ev("not_found", q_hostname.val))
                        /\ Return(None)
                        /\ q_sid' = q_sid
  /\ UNCHANGED <<argVars, findVars, connVars, q_hostname, redeployVars, deployVars, waitVars, calls>>

QueryGet ==
  /\ pc = "q_get"
  /\ \E o \in ApiOutcomes :
       IF o = "raise"
         THEN Raise /\ UNCHANGED envVars
         ELSE \E s \in Statuses :
                /\ remote' = [remote EXCEPT ![q_sid] = s]
                /\ lastFetched' = [lastFetched EXCEPT ![q_sid] = s]
                /\ Return(Machine(q_sid, s))
                /\ UNCHANGED <<outcome, log>>
  /\ UNCHANGED <<argVars, findVars, connVars, queryVars, redeployVars, deployVars, waitVars, calls>>

\* ---------------------------------------------------------------- get_status
GetStatus ==
  /\ pc = "gs_queried"
  /\ IF Truthy(ret)
       THEN /\ log' = Append(log, Ev("status", ret.system_id))
            /\ Return(Str(ret.status_name))
       ELSE /\ log' = log
            /\ Return(None)
  /\ q_hostname' = None /\ q_sid' = 0
  /\ UNCHANGED <<outcome, argVars, findVars, connVars, envVars, redeployVars, deployVars, waitVars, calls>>

\* ------------------------------------------------------------ deploy_machine
\* status == "deployed" / machine.status_name.lower() == "deployed"
IsDeployed(s) == Lower(s) = "deployed"

\* status in ["failed", "broken", "error", "unknown"]
NonDeployable == {"failed", "broken", "error", "unknown"}
IsNonDeployableNever(s) == FALSE
IsNonDeployable(s) == Lower(s) \in NonDeployable

\* next((m for m in machines if m.hostname == machine_name), None)
Named(f, name) == {i \in Machines : PyEq(Machine(i, f[i]).hostname, name)}

\* what the messages print for machine_name: a hostname, or the object's id
NameOf(name) == IF name.kind = "str" THEN name.val ELSE name.system_id

DeployList ==
  /\ pc = "d_list"
  /\ \E o \in ApiOutcomes :
       IF o = "raise"
         THEN /\ log' = Append(log, Ev("deploy_failed", NameOf(d_name)))
              /\ Return(None)
              /\ UNCHANGED <<envVars, d_machine>>
         ELSE /\ remote' \in Listings
              /\ lastFetched' = remote'
              /\ CASE Named(remote', d_name) = {} ->
                        /\ log' = Append(log, Ev("deploy_not_found", NameOf(d_name)))
                        /\ Return(None)
                        /\ d_machine' = d_machine
                   [] Named(remote', d_name) # {}
                        /\ IsDeployed(remote'[FirstOf(Named(remote', d_name))]) ->
                        /\ log' = Append(log, Ev("already_deployed", NameOf(d_name)))
                        /\ Return(None)
                        /\ d_machine' = d_machine
                   [] Named(remote', d_name) # {}
                        /\ ~IsDeployed(remote'[FirstOf(Named(remote', d_name))])
                        /\ IsNonDeployable(remote'[FirstOf(Named(remote', d_name))]) ->
                        /\ log' = Append(log, Ev("non_deployable", NameOf(d_name)))
                        /\ Return(None)
                        /\ d_machine' = d_machine
                   [] OTHER ->
                        /\ log' = Append(log, Ev("deploying", NameOf(d_name)))
                        /\ d_machine' = Machine(FirstOf(Named(remote', d_name)),
                                                remote'[FirstOf(Named(remote', d_name))])
                        /\ pc' = "d_deploy"
                        /\ UNCHANGED <<stack, ret>>
  /\ UNCHANGED <<outcome, argVars, findVars, connVars, queryVars, redeployVars, d_name, waitVars, calls>>

\* machine.deploy() with no handler around it
DeployCallPropagates ==
  /\ pc = "d_deploy"
  /\ calls' = Touch(calls, d_machine.system_id)
  /\ \E o \in ApiOutcomes :
       IF o = "raise"
         THEN RaiseWith(Append(log, Call("deploy", d_machine.system_id)))
         ELSE /\ log' = Append(Append(log, Call("deploy", d_machine.system_id)),
                               Ev("deploy_triggered", NameOf(d_name)))
              /\ Return(None)
              /\ outcome' = outcome
  /\ UNCHANGED <<argVars, findVars, connVars, envVars, queryVars, redeployVars, deployVars, waitVars>>

\* await machine.deploy(osystem=os_distro); whatever it raises is caught
DeployCall ==
  /\ pc = "d_deploy"
  /\ \E o \in ApiOutcomes :
       log' = Append(Append(log, Call("deploy", d_machine.system_id)),
                     Ev(IF o = "raise" THEN "deploy_failed" ELSE "deploy_triggered",
                        NameOf(d_name)))
  /\ calls' = Touch(calls, d_machine.system_id)
  /\ Return(None)
  /\ UNCHANGED <<outcome, argVars, findVars, connVars, envVars, queryVars, redeployVars, deployVars, waitVars>>

\* ----------------------------------------------------------- release_machine
\* release_machine with a handler around machine.release()
ReleaseMachineCaught ==
  /\ pc = "release"
  /\ IF IsDeployed(r_machine.status_name)
       THEN /\ calls' = Touch(calls, r_machine.system_id)
            /\ \E o \in ApiOutcomes :
                 log' = IF o = "raise"
                          THEN Append(Append(log, Call("release", r_machine.system_id)),
                                      Ev("raised", r_machine.system_id))
                          ELSE Append(log, Call("release", r_machine.system_id))
            /\ Return(None)
            /\ outcome' = outcome
       ELSE /\ Return(None)
            /\ UNCHANGED <<outcome, calls, log>>
  /\ UNCHANGED <<argVars, findVars, connVars, envVars, queryVars, redeployVars, deployVars, waitVars>>

ReleaseMachine ==
  /\ pc = "release"
  /\ IF IsDeployed(r_machine.status_name)
       THEN /\ calls' = Touch(calls, r_machine.system_id)
            /\ \E o \in ApiOutcomes :
                 IF o = "raise"
                   THEN RaiseWith(Append(Append(log, Call("release", r_machine.system_id)),
                                         Ev("raised", r_machine.system_id)))
                   ELSE /\ log' = Append(log, Call("release", r_machine.system_id))
                        /\ Return(None)
                        /\ outcome' = outcome
       ELSE /\ Return(None)
            /\ UNCHANGED <<outcome, calls, log>>
  /\ UNCHANGED <<argVars, findVars, connVars, envVars, queryVars, redeployVars, deployVars, waitVars>>

\* ---------------------------------------------------------- redeploy_machine
\* the caller's step into redeploy_machine
CallRedeploy(hostname, back) ==
  /\ r_hostname' = hostname /\ r_machine' = None
  /\ pc' = "r_start"
  /\ stack' = <<back>> \o stack

\* machine = await query_machine(client, hostname, log_file)
RedeployStart ==
  /\ pc = "r_start"
  /\ q_hostname' = r_hostname /\ q_sid' = 0
  /\ pc' = "q_list"
  /\ stack' = <<"r_queried">> \o stack
  /\ log' = <<>>
  /\ UNCHANGED <<ret, outcome, argVars, findVars, connVars, envVars, redeployVars, deployVars, waitVars, calls>>

\* if not machine: return; if machine.status_name.lower() == "deployed": release
RedeployQueried ==
  /\ pc = "r_queried"
  /\ q_hostname' = None /\ q_sid' = 0
  /\ r_machine' = ret
  /\ IF ~Truthy(ret)
       THEN /\ Return(None)
            /\ r_hostname' = None
       ELSE /\ r_hostname' = r_hostname
            /\ ret' = ret
            /\ IF IsDeployed(ret.status_name)
                 THEN pc' = "release" /\ stack' = <<"r_released">> \o stack
                 ELSE pc' = "r_deploy" /\ stack' = stack
  /\ UNCHANGED <<outcome, argVars, findVars, connVars, envVars, ra_idx, deployVars, waitVars, calls, log>>

\* await wait_for_status(client, machine.system_id, "Ready")
RedeployReleased ==
  /\ pc = "r_released"
  /\ CallWait(r_machine.system_id, "Ready", DefaultTimeout, "r_deploy")
  /\ UNCHANGED <<ret, outcome, argVars, findVars, connVars, lastFetched, queryVars, redeployVars, deployVars, calls, log>>

\* the name redeploy_machine hands to deploy_machine: the machine object
RedeployDeployArg(machine, hostname) == machine

\* await deploy_machine(client, machine, os_to_use)
RedeployDeploy ==
  /\ pc = "r_deploy"
  /\ d_name' = RedeployDeployArg(r_machine, r_hostname) /\ d_machine' = None
  /\ pc' = "d_list"
  /\ stack' = <<"r_deployed">> \o stack
  /\ w_id' = 0 /\ w_expected' = "" /\ w_timeout' = 0 /\ elapsed' = 0
  /\ polls' = 0 /\ wsleeps' = 0 /\ lastPollAt' = -1 /\ appearedAt' = -1
  /\ UNCHANGED <<ret, outcome, argVars, findVars, connVars, envVars, queryVars, redeployVars, calls, log>>

\* await wait_for_status(client, machine.system_id, "Deployed")
RedeployDeployed ==
  /\ pc = "r_deployed"
  /\ d_name' = None /\ d_machine' = None
  /\ CallWait(r_machine.system_id, "Deployed", DefaultTimeout, "r_final")
  /\ UNCHANGED <<ret, outcome, argVars, findVars, connVars, lastFetched, queryVars, redeployVars, calls, log>>

\* log(f"Machine {hostname} successfully redeployed with {os_to_use}")
RedeployFinal ==
  /\ pc = "r_final"
  /\ log' = Append(log, Ev("redeployed", r_hostname.val))
  /\ Return(None)
  /\ r_hostname' = None /\ r_machine' = None
  /\ w_id' = 0 /\ w_expected' = "" /\ w_timeout' = 0 /\ elapsed' = 0
  /\ polls' = 0 /\ wsleeps' = 0 /\ lastPollAt' = -1 /\ appearedAt' = -1
  /\ UNCHANGED <<outcome, argVars, findVars, connVars, envVars, queryVars, ra_idx, deployVars, calls>>

\* --------------------------------------------------------------- redeploy_all
\* for m in machines: the k-th machine of the listing
NthListedReversed(k) == NumMachines + 1 - k
NthListed(k) == k

RedeployAllList ==
  /\ pc = "ra_list"
  /\ \E o \in ApiOutcomes :
       IF o = "raise"
         THEN Raise /\ UNCHANGED envVars
         ELSE /\ remote' \in Listings
              /\ lastFetched' = remote'
              /\ pc' = "ra_loop"
              /\ UNCHANGED <<stack, ret, outcome, log>>
  /\ ra_idx' = 0
  /\ UNCHANGED <<argVars, findVars, connVars, queryVars, r_hostname, r_machine, deployVars, waitVars, calls>>

\* the loop of redeploy_all, were it to stay on the same machine
RedeployAllLoopNoAdvance ==
  /\ pc = "ra_loop"
  /\ ra_idx' = ra_idx
  /\ CallRedeploy(Machine(NthListed(ra_idx + 1), remote[NthListed(ra_idx + 1)]).hostname,
                  "ra_loop")
  /\ UNCHANGED <<ret, outcome, argVars, findVars, connVars, envVars, queryVars, deployVars, waitVars, calls, log>>

RedeployAllLoop ==
  /\ pc = "ra_loop"
  /\ IF ra_idx < NumMachines
       THEN /\ ra_idx' = ra_idx + 1
            /\ CallRedeploy(Machine(NthListed(ra_idx + 1), remote[NthListed(ra_idx + 1)]).hostname,
                            "ra_loop")
            /\ ret' = ret
       ELSE /\ Return(None)
            /\ UNCHANGED <<ra_idx, r_hostname, r_machine>>
  /\ UNCHANGED <<outcome, argVars, findVars, connVars, envVars, queryVars, deployVars, waitVars, calls, log>>

\* ------------------------------------------------- find_last_deployed_machine
\* timestamp_attrs, in the order the attributes are tried
timestamp_attrs ==
  <<"deployment_started_at", "deployed_at", "deployment_finished_at",
    "commissioning_finished_at", "last_updated", "updated_at", "created_at",
    "created">>

AttrNames == {timestamp_attrs[k] : k \in 1..Len(timestamp_attrs)}

\* what getattr(m, attr, None) can give: None (kept as None), the empty
\* string, a string datetime.fromisoformat rejects, an ISO string, a datetime,
\* a number.  tz tells whether the datetime carries a UTC offset ("aware") or
\* not ("naive"); t is the instant it denotes
EmptyText == [kind |-> "empty"]
BadText == [kind |-> "badtext"]
IsoText(tz, t) == [kind |-> "text", tz |-> tz, t |-> t]
DateTime(tz, t) == [kind |-> "datetime", tz |-> tz, t |-> t]
Number(t) == [kind |-> "number", t |-> t]

\* the try block of lines 172-181 ends without an exception
Converts(val) == val.kind \in {"text", "datetime", "number"}

\* datetime.fromisoformat(val) / val / datetime.fromtimestamp(float(val)):
\* fromtimestamp gives a naive datetime, the other two keep the offset
Converted(val) ==
  IF val.kind = "number"
    THEN DateTime("naive", val.t)
    ELSE DateTime(val.tz, val.t)

\* for attr in timestamp_attrs, from the k-th attribute on, ending with the
\* last successful conversion instead of the first
RECURSIVE TimestampFromLast(_, _)
TimestampFromLast(m, k) ==
  IF k > Len(timestamp_attrs)
    THEN None
    ELSE LET val == m.attrs[timestamp_attrs[k]]
             rest == TimestampFromLast(m, k + 1)
         IN  IF Truthy(val) /\ Converts(val) /\ rest = None
               THEN Converted(val)
               ELSE rest

\* for attr in timestamp_attrs, from the k-th attribute on: a false value is
\* passed over, a conversion that raises leaves ts = None and the loop goes
\* on, the first conversion that succeeds ends the loop
RECURSIVE TimestampFrom(_, _)
TimestampFrom(m, k) ==
  IF k > Len(timestamp_attrs)
    THEN None
    ELSE LET val == m.attrs[timestamp_attrs[k]]
         IN  IF ~Truthy(val)
               THEN TimestampFrom(m, k + 1)
               ELSE IF Converts(val)
                      THEN Converted(val)
                      ELSE TimestampFrom(m, k + 1)

\* for m in machines, from the i-th on: candidates.append((ts, m)) for the
\* machines in Deployed state
RECURSIVE Scan(_, _)
Scan(ms, i) ==
  IF i > Len(ms)
    THEN <<>>
    ELSE (IF Lower(ms[i].status_name) # "deployed"
            THEN <<>>
            ELSE <<[ts |-> TimestampFrom(ms[i], 1), m |-> i]>>)
         \o Scan(ms, i + 1)

\* candidates = [c for c in candidates if c[0] is not None]
WithTimestamp(cs) == SelectSeq(cs, LAMBDA c : c.ts # None)

\* candidates.sort(key=lambda x: x[0], reverse=True) compares datetimes: a
\* naive one against an aware one raises TypeError
Comparable(cs) ==
  \A i, j \in 1..Len(cs) : cs[i].ts.tz = cs[j].ts.tz

\* candidates[0] after the sort: the sort is stable and reverse=True keeps
\* equal keys in their original order, so the head is the first of the
\* candidates with the greatest timestamp
SortedHead(cs) ==
  cs[CHOOSE p \in 1..Len(cs) :
       /\ \A q \in 1..Len(cs) : cs[q].ts.t <= cs[p].ts.t
       /\ \A q \in 1..(p - 1) : cs[q].ts.t # cs[p].ts.t]

\* the machines in Deployed state, by position in the listing
DeployedIn(ms) == {i \in 1..Len(ms) : Lower(ms[i].status_name) = "deployed"}

\* for m in machines: if ... == "deployed": return m
FirstDeployedFromEnd(ms) == CHOOSE i \in DeployedIn(ms) : \A j \in DeployedIn(ms) : j <= i
FirstDeployed(ms) == CHOOSE i \in DeployedIn(ms) : \A j \in DeployedIn(ms) : i <= j

\* the machine object at position i of the listing
Listed(ms, i) == Machine(i, ms[i].status_name)

\* machines = await client.machines.list() and the loop of lines 161-186
FindScan ==
  /\ pc = "find_scan"
  /\ \E o \in ApiOutcomes :
       IF o = "raise"
         THEN Raise /\ candidates' = candidates
         ELSE /\ candidates' = Scan(machines, 1)
              /\ log' = Append(log, Ev("listed", 0))
              /\ pc' = "find_select"
              /\ UNCHANGED <<stack, ret, outcome>>
  /\ UNCHANGED <<argVars, machines, connVars, envVars, queryVars, redeployVars,
                 deployVars, waitVars, calls>>

\* lines 189-199: the candidate with the latest timestamp, else the first
\* machine in Deployed state, else None
FindSelect ==
  /\ pc = "find_select"
  /\ candidates' = WithTimestamp(candidates)
  /\ IF WithTimestamp(candidates) # <<>>
       THEN IF Comparable(WithTimestamp(candidates))
              THEN /\ Return(Listed(machines, SortedHead(WithTimestamp(candidates)).m))
                   /\ UNCHANGED <<outcome, log>>
              ELSE RaiseWith(Append(log, Ev("TypeError", 0)))
       ELSE /\ IF DeployedIn(machines) # {}
                 THEN Return(Listed(machines, FirstDeployed(machines)))
                 ELSE Return(None)
            /\ UNCHANGED <<outcome, log>>
  /\ UNCHANGED <<argVars, machines, connVars, envVars, queryVars, redeployVars,
                 deployVars, waitVars, calls>>

NextFind == FindScan \/ FindSelect

\* ------------------------------------------------------------------------ main
\* what loading the module can do: go through, or raise
LoadOutcomes == {"ok", "raise"}

\* lines 27-41 run when the script is loaded: maas.conf, the key file and the
\* encrypted API key are read and the key is decrypted.  No handler is in
\* place yet: an exception ends the process with a traceback and status 1
Startup ==
  /\ pc = "startup"
  /\ \E o \in LoadOutcomes :
       IF o = "raise"
         THEN pc' = "exited" /\ outcome' = "traceback"
         ELSE pc' = "main" /\ outcome' = outcome
  /\ UNCHANGED <<stack, ret, argVars, findVars, connVars, envVars, queryVars,
                 redeployVars, deployVars, waitVars, calls, log>>

\* args = parser.parse_args(): a command line without one of the --action
\* choices makes argparse print its usage and call sys.exit(2);
\* client = await connect_maas(MAAS_URL, MAAS_API_KEY)
Main ==
  /\ pc = "main"
  /\ IF action \in Actions
       THEN /\ retries' = DefaultRetries /\ attempt' = 0
            /\ pc' = "connect_loop"
            /\ stack' = <<"dispatch">>
            /\ outcome' = outcome
       ELSE /\ pc' = "exited"
            /\ outcome' = "exit2"
            /\ UNCHANGED <<retries, attempt, stack>>
  /\ UNCHANGED <<ret, argVars, findVars, lastErr, outcomes, sleeps, slept, envVars, queryVars,
                 redeployVars, deployVars, waitVars, calls, log>>

\* the actions that need --machine
NeedsMachine == {"query", "status", "deploy", "redeploy"}

Dispatch ==
  /\ pc = "dispatch"
  /\ retries' = 0 /\ attempt' = 0 /\ lastErr' = "none" /\ outcomes' = <<>> /\ sleeps' = 0
  /\ slept' = 0
  /\ ret' = ret
  /\ IF action \in NeedsMachine /\ ~Truthy(machineArg)
       THEN /\ log' = Append(log, Ev("usage", 0))
            /\ pc' = "main_end" /\ stack' = <<>>
            /\ UNCHANGED <<queryVars, redeployVars, deployVars>>
       ELSE /\ log' = log
            /\ CASE action = "list" ->
                      /\ pc' = "list_machines" /\ stack' = <<"main_end">>
                      /\ UNCHANGED <<queryVars, redeployVars, deployVars>>
                 [] action = "list-distros" ->
                      /\ pc' = "list_distros" /\ stack' = <<"main_end">>
                      /\ UNCHANGED <<queryVars, redeployVars, deployVars>>
                 [] action = "query" ->
                      /\ q_hostname' = machineArg /\ q_sid' = 0
                      /\ pc' = "q_list" /\ stack' = <<"main_end">>
                      /\ UNCHANGED <<redeployVars, deployVars>>
                 [] action = "status" ->
                      /\ q_hostname' = machineArg /\ q_sid' = 0
                      /\ pc' = "q_list" /\ stack' = <<"gs_queried", "main_end">>
                      /\ UNCHANGED <<redeployVars, deployVars>>
                 [] action = "deploy" ->
                      /\ d_name' = machineArg /\ d_machine' = None
                      /\ pc' = "d_list" /\ stack' = <<"main_end">>
                      /\ UNCHANGED <<queryVars, redeployVars>>
                 [] action = "redeploy" ->
                      /\ CallRedeploy(machineArg, "main_end")
                      /\ UNCHANGED <<queryVars, ra_idx, deployVars>>
                 [] action = "redeploy-all" ->
                      /\ pc' = "ra_list" /\ stack' = <<"main_end">>
                      /\ UNCHANGED <<queryVars, redeployVars, deployVars>>
                 [] OTHER ->
                      /\ pc' = "last_deployed" /\ stack' = <<"main_end">>
                      /\ UNCHANGED <<queryVars, redeployVars, deployVars>>
  /\ UNCHANGED <<outcome, argVars, findVars, envVars, waitVars, calls>>

\* m = await find_last_deployed_machine(client): some Deployed machine of the
\* listing when there is one, None otherwise
LastDeployed ==
  /\ pc = "last_deployed"
  /\ \E o \in ApiOutcomes :
       IF o = "raise"
         THEN Raise /\ UNCHANGED envVars
         ELSE /\ remote' \in Listings
              /\ lastFetched' = remote'
              /\ log' = Append(log, Ev(IF \E i \in Machines : IsDeployed(remote'[i])
                                         THEN "last_deployed" ELSE "no_deployed", 0))
              /\ Return(None)
              /\ outcome' = outcome
  /\ UNCHANGED <<argVars, findVars, connVars, queryVars, redeployVars, deployVars, waitVars, calls>>

\* main() returns and asyncio.run() with it: the script ends with status 0
MainEnd ==
  /\ pc = "main_end"
  /\ pc' = "done"
  /\ outcome' = "completed"
  /\ d_name' = None /\ d_machine' = None
  /\ q_hostname' = None /\ q_sid' = 0
  /\ UNCHANGED <<stack, ret, argVars, findVars, connVars, envVars, redeployVars, waitVars, calls, log>>

Next ==
  \/ Startup \/ Main \/ ConnectLoop \/ ConnectAttempt \/ ConnectBackoff \/ ConnectFatal
  \/ Dispatch \/ ListMachines \/ ListDistros \/ QueryList \/ QueryGet \/ GetStatus
  \/ DeployList \/ DeployCall \/ ReleaseMachine
  \/ RedeployStart \/ RedeployQueried \/ RedeployReleased \/ RedeployDeploy
  \/ RedeployDeployed \/ RedeployFinal \/ RedeployAllList \/ RedeployAllLoop
  \/ WaitPoll \/ WaitSleep \/ WaitTimeout \/ LastDeployed \/ MainEnd

\* ---------------------------------------------------------- initial states
IdleFrames ==
  /\ q_hostname = None /\ q_sid = 0
  /\ r_hostname = None /\ r_machine = None /\ ra_idx = 0
  /\ d_name = None /\ d_machine = None
  /\ w_id = 0 /\ w_expected = "" /\ w_timeout = 0 /\ elapsed = 0
  /\ polls = 0 /\ wsleeps = 0 /\ lastPollAt = -1 /\ appearedAt = -1

\* connect_maas on its own, for every max_attempts up to MaxRetries
InitConnect ==
  /\ pc = "connect_loop" /\ stack = <<>> /\ ret = None /\ outcome = "running"
  /\ action = "list" /\ machineArg = None
  /\ retries \in 1..MaxRetries /\ attempt = 0 /\ lastErr = "none"
  /\ outcomes = <<>> /\ sleeps = 0 /\ slept = 0
  /\ remote \in [Machines -> {"Ready"}]
  /\ lastFetched = [i \in Machines |-> "none"]
  /\ IdleFrames
  /\ machines = <<>> /\ candidates = <<>>
  /\ calls = <<>> /\ log = <<>>

SpecConnect == InitConnect /\ [][NextConnect]_vars

\* wait_for_status on its own, for every timeout up to MaxTimeout
InitWait ==
  /\ pc = "w_loop" /\ stack = <<>> /\ ret = None /\ outcome = "running"
  /\ action = "list" /\ machineArg = None
  /\ retries = 0 /\ attempt = 0 /\ lastErr = "none" /\ outcomes = <<>> /\ sleeps = 0
  /\ slept = 0
  /\ remote \in [Machines -> Statuses]
  /\ lastFetched = [i \in Machines |-> "none"]
  /\ q_hostname = None /\ q_sid = 0
  /\ r_hostname = None /\ r_machine = None /\ ra_idx = 0
  /\ d_name = None /\ d_machine = None
  /\ w_id \in Machines
  /\ w_expected \in {"Ready", "deployed"}
  /\ w_timeout \in 0..MaxTimeout
  /\ elapsed = 0 /\ polls = 0 /\ wsleeps = 0 /\ lastPollAt = -1
  /\ appearedAt = Appeared(remote[w_id], w_expected, -1, 0)
  /\ machines = <<>> /\ candidates = <<>>
  /\ calls = <<>> /\ log = <<>>

SpecWait == InitWait /\ [][NextWait]_vars

\* a machine of the listing: its status and its timestamp attributes
Statused(S, A) == [status_name : S, attrs : A]

\* listings of up to n machines
ListingsUpTo(M, n) == UNION {[1..k -> M] : k \in 0..n}

\* the values an attribute takes when timestamps are compared: missing,
\* unparseable, ISO text with and without offset, a numeric epoch value
ComparedValues ==
  {None, BadText}
    \cup {IsoText(tz, t) : tz \in {"naive", "aware"}, t \in 1..MaxTs}
    \cup {Number(1)}

\* the machines carry the attribute "created" alone, as in the listings of
\* spec.md
OnlyCreated(v) == [a \in AttrNames |-> IF a = "created" THEN v ELSE None]

\* find_last_deployed_machine on its own, for every listing of up to MaxLen
\* machines
InitFind ==
  /\ pc = "find_scan" /\ stack = <<>> /\ ret = None /\ outcome = "running"
  /\ action = "last-deployed" /\ machineArg = None
  /\ retries = 0 /\ attempt = 0 /\ lastErr = "none" /\ outcomes = <<>> /\ sleeps = 0
  /\ slept = 0
  /\ remote \in [Machines -> {"Ready"}]
  /\ lastFetched = [i \in Machines |-> "none"]
  /\ IdleFrames
  /\ machines \in ListingsUpTo(Statused({"Deployed", "deployed", "Ready"},
                                        {OnlyCreated(v) : v \in ComparedValues}),
                               MaxLen)
  /\ candidates = <<>>
  /\ calls = <<>> /\ log = <<>>

SpecFind == InitFind /\ [][NextFind]_vars

\* the values an attribute takes when one machine's timestamp is extracted
ExtractedValues ==
  {None, EmptyText, BadText} \cup {IsoText("naive", t) : t \in 1..MaxTs}

\* the loop of lines 161-186 on one machine in Deployed state, for every
\* assignment of its eight timestamp attributes
InitTimestamp ==
  /\ pc = "find_scan" /\ stack = <<>> /\ ret = None /\ outcome = "running"
  /\ action = "last-deployed" /\ machineArg = None
  /\ retries = 0 /\ attempt = 0 /\ lastErr = "none" /\ outcomes = <<>> /\ sleeps = 0
  /\ slept = 0
  /\ remote \in [Machines -> {"Ready"}]
  /\ lastFetched = [i \in Machines |-> "none"]
  /\ IdleFrames
  /\ machines \in [{1} -> Statused({"Deployed"}, [AttrNames -> ExtractedValues])]
  /\ candidates = <<>>
  /\ calls = <<>> /\ log = <<>>

SpecTimestamp == InitTimestamp /\ [][NextFind]_vars

\* one run of the script, for every command line and every state of the
\* service; --machine is read by the four actions that need it and by no other
Init ==
  /\ pc = "startup" /\ stack = <<>> /\ ret = None /\ outcome = "running"
  /\ action \in Actions \cup {BadAction}
  /\ machineArg \in IF action \in NeedsMachine
                      THEN {None} \cup {Str(h) : h \in 0..NumMachines}
                      ELSE {None}
  /\ retries = 0 /\ attempt = 0 /\ lastErr = "none" /\ outcomes = <<>> /\ sleeps = 0
  /\ slept = 0
  /\ remote \in [Machines -> Statuses]
  /\ lastFetched = [i \in Machines |-> "none"]
  /\ IdleFrames
  /\ machines = <<>> /\ candidates = <<>>
  /\ calls = <<>> /\ log = <<>>

Spec == Init /\ [][Next]_vars

\* the run under the scheduling the code relies on: asyncio runs main() as
\* its only task, every awaited call returns or raises, and time.time()
\* advances across each sleep, so a step that can be taken is taken
SpecFair == Init /\ [][Next]_vars /\ WF_vars(Next)

\* ---------------------------------------------------------------- properties
\* the positions of a sequence
Idx(q) == 1..Len(q)

\* wait_for_status has returned and its frame is still in place
WaitReturned ==
  /\ pc \in {"returned", "r_deploy", "r_final"}
  /\ w_expected # ""
  /\ ret.kind = "bool"

\* the listing was fetched by find_last_deployed_machine
Scanned == log # <<>> /\ log[1].ev = "listed"

\* find_last_deployed_machine has ended, by a return or by an exception
FindEnded == Scanned /\ pc \in {"returned", "done"}

\* the timestamp extracted from the machine at position i
Ts(i) == TimestampFrom(machines[i], 1)

\* the machines in Deployed state with a parseable timestamp
Stamped == {i \in DeployedIn(machines) : Ts(i) # None}

\* C11: when at least one machine in Deployed state has a parseable
\* timestamp, find_last_deployed_machine returns a machine in Deployed state
\* whose timestamp is the greatest of those machines' and, among the machines
\* with that timestamp, the first of the listing.
C11_MostRecent ==
  (FindEnded /\ Stamped # {}) =>
    /\ pc = "returned"
    /\ ret.kind = "Machine"
    /\ ret.system_id \in Stamped
    /\ \A j \in Stamped :
         /\ Ts(j).t <= Ts(ret.system_id).t
         /\ Ts(j).t = Ts(ret.system_id).t => ret.system_id <= j

Parseable(m) ==
  {k \in 1..Len(timestamp_attrs) :
     LET val == m.attrs[timestamp_attrs[k]]
     IN  val.kind \notin {"None", "empty", "badtext"}}

\* C16: the timestamp find_last_deployed_machine uses for a machine in
\* Deployed state is the parse of the first attribute, in the order of
\* timestamp_attrs, that is present, non-empty and parses: an attribute that
\* fails to parse is passed over for the next one of the same machine, no
\* later attribute replaces an earlier parse, and the timestamp is None when
\* no attribute parses.
C16_FirstParseWins ==
  (Scanned /\ pc = "find_select") =>
    /\ Len(candidates) = Cardinality(DeployedIn(machines))
    /\ \A c \in 1..Len(candidates) :
         LET m == machines[candidates[c].m]
         IN  IF Parseable(m) = {}
               THEN candidates[c].ts = None
               ELSE LET k == CHOOSE k \in Parseable(m) : \A j \in Parseable(m) : k <= j
                    IN  /\ candidates[c].ts.kind = "datetime"
                        /\ candidates[c].ts.t = m.attrs[timestamp_attrs[k]].t

C16_Witness ==
  /\ Scanned /\ pc = "find_select"
  /\ machines[1].attrs["deployment_started_at"] = BadText
  /\ machines[1].attrs["deployed_at"] = EmptyText
  /\ machines[1].attrs["deployment_finished_at"] = None
  /\ machines[1].attrs["commissioning_finished_at"] = IsoText("naive", 1)
  /\ machines[1].attrs["created"] = IsoText("naive", 2)
  /\ candidates = <<[ts |-> DateTime("naive", 1), m |-> 1]>>

Ended == pc \in {"done", "exited"}

\* the exit statuses that tell a failure: sys.exit(1), argparse's exit(2),
\* an uncaught exception
FailureStatuses == {"exit1", "exit2", "traceback"}

\* every connection attempt connect_maas was allowed has failed transiently
ExhaustedAttempts ==
  /\ retries >= 1 /\ Len(outcomes) = retries
  /\ \A k \in Idx(outcomes) : outcomes[k] \in Transient

\* C14, as claimed: the process ends with a failure exit status if and only
\* if the connector exhausted max_attempts consecutive failed attempts.
C14_Original ==
  Ended => (outcome \in FailureStatuses <=> ExhaustedAttempts)

\* C14, as amended: a run that gets as far as the connector (the configuration
\* loaded, the command line accepted) ends with a failure status if and only
\* if the connector exhausted its attempts; once the connection is made the
\* run ends without a failure status, also after 'not found', a
\* non-deployable state or a status-wait timeout was reported; a run that ends
\* before the connector is reached ends with a failure status, having
\* attempted no connection.
C14_Amended ==
  /\ outcome = "exit1" => (pc = "exited" /\ ExhaustedAttempts)
  /\ (ExhaustedAttempts /\ pc \notin {"connect_handled", "connect_loop", "connect_fatal"})
       => (pc = "exited" /\ outcome = "exit1")
  /\ outcome \in {"exit2", "traceback"} =>
       (pc = "exited" /\ outcomes = <<>> /\ attempt = 0 /\ log = <<>>)
  /\ outcome = "exit2" => action \notin Actions
  /\ (Ended /\ action \notin Actions) => outcome \in {"exit2", "traceback"}
  /\ pc = "done" => outcome \in {"completed", "error_reported"}
  /\ (\E k \in Idx(log) :
        log[k].ev \in {"not_found", "deploy_not_found", "non_deployable", "timeout"})
       => outcome \notin FailureStatuses

C14_Witness ==
  /\ pc = "done" /\ outcome = "completed" /\ action = "redeploy"
  /\ \E k \in Idx(log) : log[k].ev = "timeout"

\* C15: query, status, deploy or redeploy invoked without a target hostname
\* prints the usage message and does nothing else: no listing, fetch,
\* release, deploy or poll is issued, and the run, once it has started (the
\* configuration loaded), does not end with a failure status.
C15_UsageNoAction ==
  (action \in NeedsMachine /\ ~Truthy(machineArg) /\ outcome # "traceback") =>
    /\ calls = <<>>
    /\ \A i \in Machines : lastFetched[i] = "none"
    /\ outcome \notin FailureStatuses
    /\ Ended => log = <<Ev("usage", 0)>>

\* C17: connect_maas sleeps 2 seconds after a failed attempt exactly when
\* attempts remain: one sleep lies between two consecutive attempts, none
\* follows the last allowed attempt or a successful one, and N failures make
\* N - 1 sleeps before the fatal exit.
C17_SleepBetweenAttempts ==
  /\ slept = sleeps * BackoffSeconds
  /\ pc \in {"connect_try", "connect_handled"} => sleeps = attempt - 1
  /\ pc = "connect_loop" =>
       sleeps = (IF attempt < retries THEN attempt ELSE retries - 1)
  /\ pc \in {"connect_fatal", "exited"} =>
       (Len(outcomes) = retries /\ sleeps = retries - 1)
  /\ pc \in {"returned", "done"} => sleeps = Len(outcomes) - 1

C17_Witness ==
  /\ pc = "exited" /\ outcome = "exit1"
  /\ retries = 4 /\ Len(outcomes) = 4 /\ sleeps = 3 /\ slept = 6

\* C19: a connection attempt that raises an exception outside the five
\* handled kinds is the last one: no attempt and no sleep follows it, the
\* fatal exit is not taken, and the exception reaches the top-level handler,
\* which reports it.
C19_OtherErrorPropagates ==
  \A k \in Idx(outcomes) :
    outcomes[k] = "OtherError" =>
      /\ k = Len(outcomes) /\ k = attempt
      /\ sleeps = k - 1
      /\ pc = "done" /\ outcome = "error_reported"
      /\ log = <<Ev("Error", 0)>>

C19_Witness ==
  /\ pc = "done" /\ outcome = "error_reported"
  /\ retries = 4 /\ outcomes = <<"TimeoutError", "OtherError">>
  /\ sleeps = 1

\* C20: in redeploy-all an exception raised by a release call or by the
\* machine fetch of a status poll is not caught by the machine's sequence: it
\* ends redeploy_all and reaches the top-level handler, and no release,
\* deploy or poll is issued for a machine later in the listing.
C20_RaisePropagates ==
  action = "redeploy-all" =>
    \A k \in Idx(log) :
      log[k].ev = "raised" =>
        /\ k > 1 /\ log[k - 1].ev \in {"release", "poll"}
        /\ log[k - 1].m = log[k].m
        /\ k + 1 = Len(log) /\ log[k + 1].ev = "Error"
        /\ pc = "done" /\ outcome = "error_reported" /\ stack = <<>>
        /\ log[k].m = ra_idx
        /\ calls # <<>> /\ calls[Len(calls)] = ra_idx
        /\ \A i \in Idx(calls) : calls[i] <= ra_idx

C20_Witness ==
  /\ action = "redeploy-all" /\ pc = "done" /\ outcome = "error_reported"
  /\ ra_idx = 1 /\ calls = <<1>>
  /\ Len(log) = 3
  /\ log[1].ev = "release" /\ log[2].ev = "raised" /\ log[3].ev = "Error"

\* the status waits the redeploy sequence in progress has seen end
WaitsEnded == {k \in Idx(log) : log[k].ev \in {"reached", "timeout"}}

\* C18: every run of redeploy-all ends, whatever the machines' statuses do:
\* the loop goes through the listing once, a machine's sequence makes at most
\* two status waits, and a wait polls no longer than its timeout.
C18_Terminates ==
  /\ [](action = "redeploy-all" =>
          /\ ra_idx <= NumMachines
          /\ Cardinality(WaitsEnded) <= 2
          /\ elapsed < w_timeout + PollInterval
          /\ pc = "w_sleep" => elapsed < w_timeout)
  /\ (action = "redeploy-all") ~> Ended

C18_Witness ==
  /\ action = "redeploy-all" /\ pc = "done" /\ outcome = "completed"
  /\ ra_idx = NumMachines
  /\ Cardinality({k \in Idx(log) : log[k].ev = "timeout"}) = 2

\* C1: for every max_attempts N >= 1, when every attempt fails with one of the
\* five transient errors, connect_maas makes exactly N attempts and then takes
\* the fatal exit: no attempt follows the N-th, nothing is returned, and the
\* exit happens only after exactly N attempts.
C1_ExactlyNAttempts ==
  (\A i \in Idx(outcomes) : outcomes[i] \in Transient) =>
    /\ Len(outcomes) <= retries
    /\ pc # "returned"
    /\ pc \in {"connect_handled", "connect_loop", "connect_fatal", "exited"}
         => Len(outcomes) = attempt
    /\ pc \in {"connect_fatal", "exited"} => Len(outcomes) = retries
    /\ outcome = (IF pc = "exited" THEN "exit1" ELSE "running")

C1_Witness ==
  /\ pc = "exited" /\ outcome = "exit1"
  /\ retries >= 3 /\ Len(outcomes) = retries
  /\ outcomes[1] = "ClientConnectorError" /\ outcomes[retries] = "TimeoutError"

\* C2: when attempt k is the first to succeed (every earlier one failing
\* transiently), connect_maas returns that attempt's Session after exactly k
\* attempts: the successful attempt is the last one made, k <= max_attempts,
\* and the process is not terminated.
C2_ReturnsOnFirstSuccess ==
  \A k \in Idx(outcomes) :
    outcomes[k] = "ok" =>
      /\ k = Len(outcomes) /\ k = attempt /\ k <= retries
      /\ \A i \in 1..(k - 1) : outcomes[i] \in Transient
      /\ pc = "returned" /\ ret = Session
      /\ outcome = "running"

C2_Witness ==
  /\ pc = "returned" /\ ret = Session
  /\ Len(outcomes) = 3 /\ outcomes[3] = "ok" /\ retries > 3

\* C3, as claimed: when the machine's status becomes equal to expected_status
\* (case-insensitively) at some moment before timeout_seconds has elapsed and
\* stays so, wait_for_status returns true no later than one poll interval
\* after the status appeared.
C3_Original ==
  (WaitReturned /\ appearedAt # -1 /\ appearedAt < w_timeout) =>
    (ret = Bool(TRUE) /\ elapsed - appearedAt <= PollInterval)

\* C3, as amended: when the status becomes equal to expected_status more than
\* one poll interval before timeout_seconds has elapsed and stays so, a
\* wait_for_status that returns returns true, no later than one poll interval
\* after the status appeared.
C3_Amended ==
  (WaitReturned /\ appearedAt # -1 /\ appearedAt + PollInterval < w_timeout) =>
    (ret = Bool(TRUE) /\ elapsed - appearedAt <= PollInterval)

C3_Witness ==
  /\ WaitReturned /\ ret = Bool(TRUE)
  /\ appearedAt >= PollInterval /\ elapsed = appearedAt + PollInterval
  /\ w_expected = "deployed" /\ remote[w_id] = "Deployed"

\* C4: when no poll observes expected_status wait_for_status returns false
\* without raising and never before timeout_seconds have elapsed; no fetch is
\* issued once the elapsed time has reached timeout_seconds; and consecutive
\* fetches are separated by exactly one sleep of 10 seconds.
C4_TimeoutFalse ==
  /\ (WaitReturned /\ ret = Bool(FALSE)) => (elapsed >= w_timeout /\ outcome = "running")
  /\ (WaitReturned /\ ~(polls > 0 /\ Lower(lastFetched[w_id]) = Lower(w_expected)))
       => ret = Bool(FALSE)
  /\ polls > 0 => lastPollAt < w_timeout
  /\ pc = "w_loop" => polls = wsleeps
  /\ pc = "w_sleep" => polls = wsleeps + 1
  /\ elapsed = wsleeps * PollInterval
  /\ polls > 0 => lastPollAt = (polls - 1) * PollInterval

C4_Witness ==
  /\ WaitReturned /\ ret = Bool(FALSE)
  /\ polls = 3 /\ wsleeps = 3 /\ elapsed >= w_timeout

\* the calls of one kind that the sequence in progress issued on machine i
CallsOn(e, i) == {k \in Idx(log) : log[k].ev = e /\ log[k].m = i}

\* the redeploy sequence in progress fetched its machine, with this status
SequenceOn(S) ==
  /\ r_machine.kind = "Machine"
  /\ Lower(r_machine.status_name) \in S

\* C5: for a machine whose fetched status is Deployed, the redeploy sequence
\* invokes release and then deploy on that machine, release before deploy,
\* whatever the wait for Ready returned.
C5_ReleaseThenDeploy ==
  (pc = "r_final" /\ SequenceOn({"deployed"})) =>
    \E i \in CallsOn("release", r_machine.system_id) :
      \E j \in CallsOn("deploy", r_machine.system_id) : i < j

\* C6: for a machine whose fetched status is Failed, Broken, Error or Unknown
\* the redeploy sequence aborts with a reported error: it invokes neither
\* release nor deploy on the machine, and does not go on to wait for Deployed
\* and report a redeploy.
C6_NonDeployableAborts ==
  SequenceOn(NonDeployable) =>
    /\ pc \notin {"w_loop", "w_sleep", "r_final"}
    /\ \A k \in Idx(log) : log[k].ev \notin {"release", "deploy", "poll", "redeployed"}

\* C7: release is issued only for a machine whose most recently fetched
\* status is Deployed, and deploy only for a machine whose most recently
\* fetched status is neither Deployed nor failed, broken, error or unknown.
C7_StatusIsAuthority ==
  \A k \in Idx(log) :
    /\ log[k].ev = "release" => Lower(log[k].seen) = "deployed"
    /\ log[k].ev = "deploy" =>
         /\ log[k].seen \in Statuses
         /\ Lower(log[k].seen) \notin {"deployed"} \cup NonDeployable

C7_Witness ==
  /\ action = "deploy" /\ pc = "done"
  /\ \E k \in Idx(log) : log[k].ev = "deploy" /\ log[k].seen = "Ready"

\* C8: when the redeploy target hostname matches no machine of the listing,
\* the sequence reports the machine as not found and ends: no release, no
\* deploy and no status poll is issued.
C8_NotFoundAborts ==
  (action = "redeploy" /\ machineArg.kind = "str" /\ machineArg.val \notin Machines) =>
    /\ calls = <<>>
    /\ pc \notin {"q_get", "release", "r_released", "r_deploy", "d_list", "d_deploy",
                  "r_deployed", "w_loop", "w_sleep", "r_final"}
    /\ \A k \in Idx(log) : log[k].ev \in {"unable_to_connect", "not_found", "Error"}
    /\ outcome = "completed" => log = <<Ev("not_found", machineArg.val)>>

C8_Witness ==
  /\ action = "redeploy" /\ machineArg = Str(0)
  /\ pc = "done" /\ outcome = "completed"
  /\ log = <<Ev("not_found", 0)>>

\* C9: the 'successfully redeployed' message is reported only when the wait
\* for Deployed observed status Deployed, never after that wait returned
\* false.
C9_SuccessOnlyWhenDeployed ==
  \A k \in Idx(log) :
    log[k].ev = "redeployed" => (k > 1 /\ log[k - 1].ev = "reached")

\* C10: redeploy-all runs the redeploy sequence on every machine of the
\* listing, in listing order and one after the other: the machines released,
\* deployed or polled follow the listing, none comes back after a later one,
\* every call is issued on the machine whose sequence is in progress, and a
\* run that completes has gone through the whole listing.
C10_Sequential ==
  action = "redeploy-all" =>
    /\ \A i, j \in Idx(calls) : i < j => calls[i] < calls[j]
    /\ \A i \in Idx(calls) : calls[i] <= ra_idx
    /\ pc # "r_start" =>
         \A k \in Idx(log) :
           log[k].ev \in {"release", "deploy", "poll"} => log[k].m = ra_idx
    /\ outcome = "completed" => calls = [i \in 1..NumMachines |-> i]

C10_Witness ==
  /\ action = "redeploy-all" /\ pc = "done" /\ outcome = "completed"
  /\ calls = [i \in 1..NumMachines |-> i]
  /\ NumMachines >= 2

====
